---- MODULE Spec2Model ----
(***************************************************************************)
(* Model of deepseek_prompt_node.py: the DeepSeekPromptConnector node.     *)
(*                                                                         *)
(* Text is a sequence of pieces.  A piece is either one character of a     *)
(* caller- or server-supplied string, or a whole literal of the source     *)
(* (a preset, a hint, a fixed fragment of an f-string); the string is the  *)
(* concatenation of the pieces, the empty string is << >>.                 *)
(* Python values are tagged records (PyValue); the outcome of a call is a  *)
(* record [exc, val]: exc = NoExc and val the returned value, or exc the   *)
(* class of the exception raised and val its message.                      *)
(***************************************************************************)
EXTENDS Integers, Sequences, FiniteSets, TLC

----------------------------------------------------------------------------
(* Bounds *)

\* longest free-form input string (api_key, custom_system_prompt, text)
MaxLen == 2
\* longest completion text / plain response body
MaxBodyLen == 2

----------------------------------------------------------------------------
(* Python values and call outcomes *)

NoExc == "-"

Ok(v) == [exc |-> NoExc, val |-> v]
Raise(cls, msg) == [exc |-> cls, val |-> msg]

\* a Python value: t is its type; s the text of a str (the digits of a
\* number), items the elements of a list, d the members of a dict
PyValue(t, s, items, d) == [t |-> t, s |-> s, items |-> items, d |-> d]

PyNone == PyValue("None", << >>, << >>, << >>)
PyStr(s) == PyValue("str", s, << >>, << >>)
PyNum(digits) == PyValue("num", <<digits>>, << >>, << >>)
PyList(l) == PyValue("list", << >>, l, << >>)
PyDict(d) == PyValue("dict", << >>, << >>, d)

\* bool(x) for the values that reach an `or` / `not` in the source
Truthy(x) ==
    CASE x.t = "None" -> FALSE
      [] x.t = "str" -> Len(x.s) > 0
      [] x.t = "list" -> Len(x.items) > 0
      [] x.t = "num" -> x.s # <<"0">>
      [] x.t = "dict" -> DOMAIN x.d # {}

\* (x or "")
OrEmpty(x) == IF Truthy(x) THEN x ELSE PyStr(<< >>)

\* characters str.strip() removes
WhiteSpace == {" ", "\t", "\n", "\r"}

RECURSIVE LStrip(_)
LStrip(s) ==
    IF s # << >> /\ Head(s) \in WhiteSpace THEN LStrip(Tail(s)) ELSE s

RECURSIVE RStrip(_)
RStrip(s) ==
    IF s # << >> /\ s[Len(s)] \in WhiteSpace
    THEN RStrip(SubSeq(s, 1, Len(s) - 1))
    ELSE s

\* str.strip()
Strip(s) == RStrip(LStrip(s))

\* all sequences over alphabet A of length at most n
SeqsUpTo(A, n) == UNION {[1..k -> A] : k \in 0..n}

\* sub occurs in s as a contiguous run of pieces
Contains(s, sub) ==
    \E i \in 0..(Len(s) - Len(sub)) : SubSeq(s, i + 1, i + Len(sub)) = sub

EndsWith(s, suffix) ==
    /\ Len(suffix) <= Len(s)
    /\ SubSeq(s, Len(s) - Len(suffix) + 1, Len(s)) = suffix

----------------------------------------------------------------------------
(* Static tables *)

DEEPSEEK_API_URL == "https://api.deepseek.com/chat/completions"

DefaultMode == "Improve prompt (default)"

SYSTEM_PROMPT_PRESETS ==
    (DefaultMode :>
        <<"You are an expert prompt engineer for image generation. Rewrite and improve the user's prompt to be clearer, richer in visual details, composition, lighting, style, quality tags, and camera/lens hints when relevant. Return only the final improved prompt text.">>)
    @@ ("Create prompt from idea" :>
        <<"You are an expert prompt engineer for image generation. If user provides an idea, produce one strong, production-ready image prompt. If input is empty, invent a compelling prompt yourself. Return only the final prompt text.">>)
    @@ ("Photorealistic refinement" :>
        <<"You improve prompts for photorealistic image generation. Add scene detail, lens/camera cues, realistic lighting, textures, and composition. Avoid fantasy terms unless user asks. Return only the final prompt text.">>)
    @@ ("Cinematic style" :>
        <<"You improve prompts in cinematic style. Enhance storytelling, framing, mood, color grading, lighting direction, and shot type. Return only the final prompt text.">>)
    @@ ("Anime style" :>
        <<"You improve prompts for anime-style image generation. Enhance character design, line style, palette, mood, and composition. Return only the final prompt text.">>)
    @@ ("Custom" :> << >>)

TARGET_MODEL_HINTS ==
    ("z-image turbo" :>
        <<"Prioritize concise but high-signal wording with strong visual anchors and minimal redundancy.">>)
    @@ ("nano banana pro" :>
        <<"Use practical, concrete descriptors and stable composition instructions.">>)
    @@ ("seedream 4.5" :>
        <<"Emphasize imaginative atmosphere, cinematic lighting, and rich scene storytelling.">>)
    @@ ("flux 2 klein 9b" :>
        <<"Use clear structure with subject, environment, lighting, and style in predictable order.">>)
    @@ ("qwen image 2512" :>
        <<"Provide balanced detail and explicit visual constraints for reliable output.">>)
    @@ ("qwen edit image 2511" :>
        <<"Write edit-oriented instructions, preserving base content while specifying precise changes.">>)
    @@ ("sdxl" :>
        <<"Use SDXL-friendly descriptive style with clear subject, style, composition, and quality cues.">>)

PROMPT_STYLE_HINTS ==
    ("Short" :> <<"Keep the output short and compact.">>)
    @@ ("Detailed" :> <<"Provide a detailed, information-rich prompt.">>)
    @@ ("Artistic" :> <<"Use expressive artistic language and mood-driven descriptors.">>)
    @@ ("Cinematic" :> <<"Use cinematic framing, shot language, and color-grading cues.">>)
    @@ ("Technical" :> <<"Use technical, precise wording focused on controllable visual attributes.">>)

\* variant of LANGUAGE_HINTS: the fallback key spelled differently
LanguageHintsRenamed ==
    ("English" :> <<"Return the final prompt in English only.">>)
    @@ ("chinese" :> <<"Return the final prompt in Simplified Chinese only.">>)

LANGUAGE_HINTS ==
    ("english" :> <<"Return the final prompt in English only.">>)
    @@ ("chinese" :> <<"Return the final prompt in Simplified Chinese only.">>)

\* table[key]: the entry, or KeyError
Subscript(table, key) ==
    IF key \in DOMAIN table THEN Ok(table[key]) ELSE Raise("KeyError", <<key>>)

\* variant of GetOrFallback: table.get(key) with no default, a miss gives
\* nothing
GetNoFallback(table, key, fallback) ==
    IF key \in DOMAIN table THEN Ok(table[key]) ELSE Ok(<< >>)

\* table.get(key, table[fallback]): Python evaluates the default argument
\* table[fallback] before the call, so a missing fallback key raises even
\* when key is present
GetOrFallback(table, key, fallback) ==
    LET dflt == Subscript(table, fallback) IN
    IF dflt.exc # NoExc THEN dflt
    ELSE IF key \in DOMAIN table THEN Ok(table[key]) ELSE dflt

----------------------------------------------------------------------------
(* INPUT_TYPES: the enumerated choices the node exposes *)

ModelChoices == {"deepseek-chat", "deepseek-reasoner"}

OutputLanguageChoices == {"english", "chinese"}

TargetModelChoices ==
    {"z-image turbo", "nano banana pro", "seedream 4.5", "flux 2 klein 9b",
     "qwen image 2512", "qwen edit image 2511", "sdxl"}

PromptStyleChoices == {"Short", "Detailed", "Artistic", "Cinematic", "Technical"}

\* list(SYSTEM_PROMPT_PRESETS.keys())
SystemPromptModeChoices == DOMAIN SYSTEM_PROMPT_PRESETS

----------------------------------------------------------------------------
(* Prompt Composer *)

\* variant of _resolve_system_prompt: no Custom branch, every mode is looked up
ResolveByTable(system_prompt_mode, custom_system_prompt) ==
    GetOrFallback(SYSTEM_PROMPT_PRESETS, system_prompt_mode, DefaultMode)

\* variant of _resolve_system_prompt: the override is checked but returned
\* as given
ResolveUntrimmed(system_prompt_mode, custom_system_prompt) ==
    IF system_prompt_mode = "Custom"
    THEN LET custom_value == OrEmpty(custom_system_prompt).s IN
         IF Strip(custom_value) = << >>
         THEN Raise("ValueError",
                    <<"system_prompt_mode is Custom, but custom_system_prompt is empty.">>)
         ELSE Ok(custom_value)
    ELSE GetOrFallback(SYSTEM_PROMPT_PRESETS, system_prompt_mode, DefaultMode)

\* _resolve_system_prompt(system_prompt_mode, custom_system_prompt)
_resolve_system_prompt(system_prompt_mode, custom_system_prompt) ==
    IF system_prompt_mode = "Custom"
    THEN LET custom_value == Strip(OrEmpty(custom_system_prompt).s) IN
         IF custom_value = << >>
         THEN Raise("ValueError",
                    <<"system_prompt_mode is Custom, but custom_system_prompt is empty.">>)
         ELSE Ok(custom_value)
    ELSE GetOrFallback(SYSTEM_PROMPT_PRESETS, system_prompt_mode, DefaultMode)

\* the control_block f-string of _build_user_message
ControlBlock(output_language, target_model, prompt_style, language_hint, target_model_hint, style_hint) ==
    <<"Generation requirements:\n">>
    \o <<"- Target image model: ", target_model, "\n">>
    \o <<"- Model adaptation note: ">> \o target_model_hint \o <<"\n">>
    \o <<"- Prompt style: ", prompt_style, ". ">> \o style_hint \o <<"\n">>
    \o <<"- Output language: ", output_language, ". ">> \o language_hint \o <<"\n">>
    \o <<"- Return only the final prompt text with no explanation.">>

ImproveHead ==
    <<"Improve this prompt for image generation. Keep intent, but increase quality and specificity:\n\n">>

ScratchHead ==
    <<"No input prompt was provided. ",
      "Generate a complete high-quality image-generation prompt from scratch.",
      "\n\n">>

\* variant of _build_user_message: the branch is taken on the text as given
\* (`if text:`), not on the trimmed text
BuildUserMessageUntrimmed(text, output_language, target_model, prompt_style) ==
    LET clean_text == Strip(OrEmpty(text).s)
        language_hint == GetOrFallback(LANGUAGE_HINTS, output_language, "english")
        target_model_hint == GetOrFallback(TARGET_MODEL_HINTS, target_model, "sdxl")
        style_hint == GetOrFallback(PROMPT_STYLE_HINTS, prompt_style, "Detailed")
        control_block ==
            ControlBlock(output_language, target_model, prompt_style,
                         language_hint.val, target_model_hint.val, style_hint.val)
    IN
    IF Truthy(text)
    THEN Ok(ImproveHead \o clean_text \o <<"\n\n">> \o control_block)
    ELSE Ok(ScratchHead \o control_block)

\* _build_user_message(text, output_language, target_model, prompt_style)
_build_user_message(text, output_language, target_model, prompt_style) ==
    LET clean_text == Strip(OrEmpty(text).s)
        language_hint == GetOrFallback(LANGUAGE_HINTS, output_language, "english")
        target_model_hint == GetOrFallback(TARGET_MODEL_HINTS, target_model, "sdxl")
        style_hint == GetOrFallback(PROMPT_STYLE_HINTS, prompt_style, "Detailed")
    IN
    IF language_hint.exc # NoExc THEN language_hint
    ELSE IF target_model_hint.exc # NoExc THEN target_model_hint
    ELSE IF style_hint.exc # NoExc THEN style_hint
    ELSE LET control_block ==
                 ControlBlock(output_language, target_model, prompt_style,
                              language_hint.val, target_model_hint.val, style_hint.val)
         IN
         IF clean_text # << >>
         THEN Ok(ImproveHead \o clean_text \o <<"\n\n">> \o control_block)
         ELSE Ok(ScratchHead \o control_block)

----------------------------------------------------------------------------
(* Exceptions: the classes that can reach an except clause of the source *)

\* direct base class
BaseOf ==
    ("HTTPError" :> "URLError")
    @@ ("URLError" :> "OSError")
    @@ ("TimeoutError" :> "OSError")
    @@ ("OSError" :> "Exception")
    @@ ("UnicodeDecodeError" :> "ValueError")
    @@ ("JSONDecodeError" :> "ValueError")
    @@ ("ValueError" :> "Exception")
    @@ ("KeyError" :> "Exception")
    @@ ("IndexError" :> "Exception")
    @@ ("TypeError" :> "Exception")
    @@ ("RuntimeError" :> "Exception")

RECURSIVE IsSubclass(_, _)
IsSubclass(cls, base) ==
    \/ cls = base
    \/ cls \in DOMAIN BaseOf /\ IsSubclass(BaseOf[cls], base)

\* index of the first except clause of a try statement that catches cls,
\* 0 when none does
RECURSIVE FirstHandlerFrom(_, _, _)
FirstHandlerFrom(cls, clauses, i) ==
    IF i > Len(clauses) THEN 0
    ELSE IF IsSubclass(cls, clauses[i]) THEN i
    ELSE FirstHandlerFrom(cls, clauses, i + 1)

FirstHandler(cls, clauses) == FirstHandlerFrom(cls, clauses, 1)

----------------------------------------------------------------------------
(* Bytes and text of a response body *)

\* a byte that occurs in no UTF-8 encoding (0xFF)
BadByte == "\\xff"
\* U+FFFD, what errors="replace" puts in its place
ReplacementChar == "\\ufffd"

\* bytes.decode("utf-8"): the text, or UnicodeDecodeError
DecodeStrict(bytes) ==
    IF \E i \in 1..Len(bytes) : bytes[i] = BadByte
    THEN Raise("UnicodeDecodeError", <<"'utf-8' codec can't decode byte 0xff">>)
    ELSE Ok(bytes)

\* bytes.decode("utf-8", errors="replace")
DecodeReplace(bytes) ==
    [i \in 1..Len(bytes) |-> IF bytes[i] = BadByte THEN ReplacementChar ELSE bytes[i]]

\* str(code) inside an f-string
Str(n) == ToString(n)

----------------------------------------------------------------------------
(* JSON documents and json.loads *)

ContentChars == {" ", "X"}

ContentValues ==
    {PyStr(s) : s \in SeqsUpTo(ContentChars, MaxBodyLen)}
    \cup {PyNone, PyNum("1"), PyList(<< >>)}

MessageValues ==
    {PyDict([content |-> c]) : c \in ContentValues}
    \cup {PyDict(<< >>), PyNone, PyStr(<<"X">>)}

ChoiceValues ==
    {PyDict([message |-> m]) : m \in MessageValues}
    \cup {PyDict(<< >>), PyNone, PyStr(<<"X">>)}

ChoicesValues ==
    {PyList(<<c>>) : c \in ChoiceValues}
    \cup {PyList(<< >>), PyDict(<< >>), PyNone, PyStr(<<"X">>)}

JsonDocs ==
    {PyDict([choices |-> c]) : c \in ChoicesValues}
    \cup {PyDict(<< >>), PyList(<< >>), PyNone, PyStr(<<"X">>)}

\* the JSON text of a document (objects of JsonDocs hold at most one member)
RECURSIVE Dumps(_)
Dumps(x) ==
    CASE x.t = "None" -> <<"null">>
      [] x.t = "num" -> x.s
      [] x.t = "str" -> <<"\"">> \o x.s \o <<"\"">>
      [] x.t = "list" ->
            IF x.items = << >> THEN <<"[", "]">>
            ELSE <<"[">> \o Dumps(x.items[1]) \o <<"]">>
      [] x.t = "dict" ->
            IF DOMAIN x.d = {} THEN <<"{", "}">>
            ELSE LET k == CHOOSE k \in DOMAIN x.d : TRUE IN
                 <<"{", "\"", k, "\"", ":">> \o Dumps(x.d[k]) \o <<"}">>

\* the documents paired with their texts
DocTexts == {<<Dumps(d), d>> : d \in JsonDocs}

\* json.loads(raw): the document whose text raw is, or JSONDecodeError
JsonLoads(raw) ==
    IF \E p \in DocTexts : p[1] = raw
    THEN Ok((CHOOSE p \in DocTexts : p[1] = raw)[2])
    ELSE Raise("JSONDecodeError", <<"Expecting value">>)

\* x[key] for a string key
GetKey(x, key) ==
    CASE x.t = "dict" ->
            IF key \in DOMAIN x.d THEN Ok(x.d[key]) ELSE Raise("KeyError", <<key>>)
      [] x.t \in {"list", "str"} ->
            Raise("TypeError", <<"indices must be integers">>)
      [] OTHER -> Raise("TypeError", <<"object is not subscriptable">>)

\* x[0]
GetFirst(x) ==
    CASE x.t = "list" ->
            IF Len(x.items) > 0 THEN Ok(x.items[1])
            ELSE Raise("IndexError", <<"list index out of range">>)
      [] x.t = "str" ->
            IF Len(x.s) > 0 THEN Ok(PyStr(<<x.s[1]>>))
            ELSE Raise("IndexError", <<"string index out of range">>)
      [] x.t = "dict" -> Raise("KeyError", <<"0">>)
      [] OTHER -> Raise("TypeError", <<"object is not subscriptable">>)

\* data["choices"][0]["message"]["content"]
ExtractContent(data) ==
    LET choices == GetKey(data, "choices") IN
    IF choices.exc # NoExc THEN choices ELSE
    LET first == GetFirst(choices.val) IN
    IF first.exc # NoExc THEN first ELSE
    LET message == GetKey(first.val, "message") IN
    IF message.exc # NoExc THEN message ELSE
    GetKey(message.val, "content")

----------------------------------------------------------------------------
(* API Client: _call_deepseek *)

DefaultTemperature == 1
DefaultMaxTokens == 512
RequestTimeout == 90

\* the payload dict and the Request built from it; data stands for
\* json.dumps(payload).encode("utf-8"), kept structured
BuildRequest(api_key, model, temperature, max_tokens, system_prompt, user_message) ==
    [url |-> DEEPSEEK_API_URL,
     method |-> "POST",
     content_type |-> "application/json",
     authorization |-> <<"Bearer ">> \o api_key,
     timeout |-> RequestTimeout,
     data |-> [model |-> model,
               messages |-> <<[role |-> "system", content |-> system_prompt],
                              [role |-> "user", content |-> user_message]>>,
               temperature |-> temperature,
               max_tokens |-> max_tokens]]

\* What the network can answer to one urlopen call:
\*   kind "response":  a 2xx response; body are its bytes, readable says
\*                     whether resp.read() delivers them or raises
\*   kind "HTTPError": urlopen raises HTTPError with code = status; fp says
\*                     whether the error carries a body stream, readable
\*                     whether e.read() delivers it or raises
\*   kind "URLError":  urlopen raises URLError (no connection)
\*   kind "TimeoutError": urlopen raises an exception that is no URLError
Answer(kind, status, body, fp, readable) ==
    [kind |-> kind, status |-> status, body |-> body, fp |-> fp, readable |-> readable]

NoReply == Answer("none", 0, << >>, FALSE, FALSE)

\* with urlopen(req, timeout=90) as resp: raw = resp.read().decode("utf-8")
OpenAndRead(reply) ==
    CASE reply.kind = "response" ->
            IF reply.readable THEN DecodeStrict(reply.body)
            ELSE Raise("TimeoutError", <<"The read operation timed out">>)
      [] reply.kind = "HTTPError" -> Raise("HTTPError", <<"HTTP Error ", Str(reply.status)>>)
      [] reply.kind = "URLError" -> Raise("URLError", <<"Connection refused">>)
      [] OTHER -> Raise("TimeoutError", <<"timed out">>)

\* variant of TransportClauses: URLError tried before its subclass HTTPError
TransportClausesSwapped == <<"URLError", "HTTPError", "Exception">>

\* the except clauses of the first try statement, in source order
TransportClauses == <<"HTTPError", "URLError", "Exception">>

\* body of `except HTTPError as e`
OnHTTPError(reply) ==
    IF reply.fp /\ ~reply.readable
    THEN Raise("TimeoutError", <<"The read operation timed out">>)
    ELSE LET body == IF reply.fp THEN DecodeReplace(reply.body) ELSE << >> IN
         Raise("RuntimeError", <<"DeepSeek API HTTP ", Str(reply.status), ": ">> \o body)

\* the first try statement of _call_deepseek: raw, or the exception raised
TryTransport(reply) ==
    LET r == OpenAndRead(reply)
        h == FirstHandler(r.exc, TransportClauses)
    IN
    IF r.exc = NoExc THEN r
    ELSE CASE h = 0 -> r
           [] TransportClauses[h] = "HTTPError" -> OnHTTPError(reply)
           [] TransportClauses[h] = "URLError" ->
                 Raise("RuntimeError", <<"DeepSeek API connection error: ">> \o r.val)
           [] TransportClauses[h] = "Exception" ->
                 Raise("RuntimeError", <<"Unexpected DeepSeek API error: ">> \o r.val)

\* variant of ParseBody: `not content` instead of `not content.strip()`
ParseBodyNoStripCheck(raw) ==
    LET data == JsonLoads(raw) IN
    IF data.exc # NoExc THEN data ELSE
    LET content == ExtractContent(data.val) IN
    IF content.exc # NoExc THEN content ELSE
    IF content.val.t # "str" \/ content.val.s = << >>
    THEN Raise("ValueError", <<"Empty response content.">>)
    ELSE Ok(Strip(content.val.s))

\* the body of the second try statement
ParseBody(raw) ==
    LET data == JsonLoads(raw) IN
    IF data.exc # NoExc THEN data ELSE
    LET content == ExtractContent(data.val) IN
    IF content.exc # NoExc THEN content ELSE
    IF content.val.t # "str" \/ Strip(content.val.s) = << >>
    THEN Raise("ValueError", <<"Empty response content.">>)
    ELSE Ok(Strip(content.val.s))

\* variant of TryParse: a body that cannot be parsed gives an empty prompt
TryParseDefault(raw) ==
    LET r == ParseBody(raw) IN
    IF r.exc # NoExc /\ IsSubclass(r.exc, "Exception") THEN Ok(<< >>) ELSE r

\* the second try statement of _call_deepseek: the completion, or RuntimeError
TryParse(raw) ==
    LET r == ParseBody(raw) IN
    IF r.exc # NoExc /\ IsSubclass(r.exc, "Exception")
    THEN Raise("RuntimeError", <<"Failed to parse DeepSeek response: ">> \o raw)
    ELSE r

----------------------------------------------------------------------------
(* Inputs *)

FreeChars == {" ", "a"}

\* a free-form string input: absent, or any string up to MaxLen
FreeStrings == {PyNone} \cup {PyStr(s) : s \in SeqsUpTo(FreeChars, MaxLen)}

\* a key that no table has
UnlistedKey == "unlisted"

ModeInputs == SystemPromptModeChoices \cup {UnlistedKey}

\* calls of generate_prompt: the presentation options at their defaults
FlowArgs ==
    [api_key : FreeStrings,
     model : {"deepseek-chat"},
     temperature : {DefaultTemperature},
     max_tokens : {DefaultMaxTokens},
     output_language : {"english"},
     target_model : {"sdxl"},
     prompt_style : {"Detailed"},
     system_prompt_mode : ModeInputs,
     custom_system_prompt : FreeStrings,
     text : {PyStr(<< >>), PyStr(<<"a">>)}]

\* inputs of the Composer's two functions
ComposerArgs ==
    [api_key : {PyStr(<<"a">>)},
     model : {"deepseek-chat"},
     temperature : {DefaultTemperature},
     max_tokens : {DefaultMaxTokens},
     output_language : OutputLanguageChoices \cup {UnlistedKey},
     target_model : TargetModelChoices \cup {UnlistedKey},
     prompt_style : PromptStyleChoices \cup {UnlistedKey},
     system_prompt_mode : ModeInputs,
     custom_system_prompt : FreeStrings,
     text : FreeStrings]

ErrorStatuses == {400, 500}

PlainBodies == SeqsUpTo({"b", BadByte}, MaxBodyLen)

\* response bodies: the texts of the JSON documents, and bodies that are no JSON
Bodies == {Dumps(d) : d \in JsonDocs} \cup PlainBodies

Replies ==
    {Answer("response", 200, b, TRUE, TRUE) : b \in Bodies}
    \cup {Answer("response", 200, << >>, TRUE, FALSE)}
    \cup {Answer("HTTPError", st, b, TRUE, TRUE) : st \in ErrorStatuses, b \in PlainBodies}
    \cup {Answer("HTTPError", st, << >>, TRUE, FALSE) : st \in ErrorStatuses}
    \cup {Answer("HTTPError", st, << >>, FALSE, FALSE) : st \in ErrorStatuses}
    \cup {Answer("URLError", 0, << >>, FALSE, FALSE)}
    \cup {Answer("TimeoutError", 0, << >>, FALSE, FALSE)}

----------------------------------------------------------------------------
(* State *)

VARIABLES
    args,           \* the arguments of the call
    pc,             \* position in generate_prompt
    api_key,        \* local api_key after line 216
    system_prompt,  \* local system_prompt
    user_message,   \* local user_message
    wire,           \* the requests handed to urlopen so far
    reply,          \* what the network answered
    raw,            \* local raw of _call_deepseek
    prompt,         \* local prompt
    ret             \* outcome of the call: Pending, a value or an exception

vars == <<args, pc, api_key, system_prompt, user_message, wire, reply, raw, prompt, ret>>

Pending == [exc |-> "pending", val |-> << >>]

Locals0 ==
    /\ api_key = << >>
    /\ system_prompt = << >>
    /\ user_message = << >>
    /\ wire = << >>
    /\ reply = NoReply
    /\ raw = << >>
    /\ prompt = << >>
    /\ ret = Pending

Init ==
    /\ args \in FlowArgs
    /\ pc = "start"
    /\ Locals0

----------------------------------------------------------------------------
(* generate_prompt, step by step *)

\* variant of CleanApiKey: no strip()
CleanApiKeyNoStrip(key) == OrEmpty(key).s

\* line 216: (api_key or "").strip()
CleanApiKey(key) == Strip(OrEmpty(key).s)

\* lines 216-218
CheckApiKey ==
    /\ pc = "start"
    /\ LET key == CleanApiKey(args.api_key) IN
       /\ api_key' = key
       /\ IF key = << >>
          THEN /\ ret' = Raise("ValueError", <<"api_key is required.">>)
               /\ pc' = "raised"
          ELSE /\ ret' = ret
               /\ pc' = "resolve"
    /\ UNCHANGED <<args, system_prompt, user_message, wire, reply, raw, prompt>>

\* line 220
Resolve ==
    /\ pc = "resolve"
    /\ LET r == _resolve_system_prompt(args.system_prompt_mode, args.custom_system_prompt) IN
       IF r.exc # NoExc
       THEN /\ ret' = r
            /\ pc' = "raised"
            /\ UNCHANGED system_prompt
       ELSE /\ system_prompt' = r.val
            /\ pc' = "build"
            /\ UNCHANGED ret
    /\ UNCHANGED <<args, api_key, user_message, wire, reply, raw, prompt>>

\* lines 221-226
Build ==
    /\ pc = "build"
    /\ LET r == _build_user_message(args.text, args.output_language,
                                 args.target_model, args.prompt_style) IN
       IF r.exc # NoExc
       THEN /\ ret' = r
            /\ pc' = "raised"
            /\ UNCHANGED user_message
       ELSE /\ user_message' = r.val
            /\ pc' = "call"
            /\ UNCHANGED ret
    /\ UNCHANGED <<args, api_key, system_prompt, wire, reply, raw, prompt>>

\* lines 227-234 and 163-184: the request is built and handed to urlopen
SendRequest ==
    /\ pc = "call"
    /\ wire' = Append(wire, BuildRequest(api_key, args.model, args.temperature,
                                         args.max_tokens, system_prompt, user_message))
    /\ pc' = "awaiting"
    /\ UNCHANGED <<args, api_key, system_prompt, user_message, reply, raw, prompt, ret>>

\* the network answers the pending urlopen call
NetworkAnswers ==
    /\ pc = "awaiting"
    /\ \E r \in Replies : reply' = r
    /\ pc' = "answered"
    /\ UNCHANGED <<args, api_key, system_prompt, user_message, wire, raw, prompt, ret>>

\* variant of HandleAnswer: a failed request is sent once more
HandleAnswerRetry ==
    /\ pc = "answered"
    /\ LET r == TryTransport(reply) IN
       IF r.exc # NoExc
       THEN IF Len(wire) < 2
            THEN /\ pc' = "call"
                 /\ UNCHANGED <<raw, ret>>
            ELSE /\ ret' = r
                 /\ pc' = "raised"
                 /\ UNCHANGED raw
       ELSE /\ raw' = r.val
            /\ pc' = "parse"
            /\ UNCHANGED ret
    /\ UNCHANGED <<args, api_key, system_prompt, user_message, wire, reply, prompt>>

\* lines 183-192
HandleAnswer ==
    /\ pc = "answered"
    /\ LET r == TryTransport(reply) IN
       IF r.exc # NoExc
       THEN /\ ret' = r
            /\ pc' = "raised"
            /\ UNCHANGED raw
       ELSE /\ raw' = r.val
            /\ pc' = "parse"
            /\ UNCHANGED ret
    /\ UNCHANGED <<args, api_key, system_prompt, user_message, wire, reply, prompt>>

\* lines 194-201
Parse ==
    /\ pc = "parse"
    /\ LET r == TryParse(raw) IN
       IF r.exc # NoExc
       THEN /\ ret' = r
            /\ pc' = "raised"
            /\ UNCHANGED prompt
       ELSE /\ prompt' = r.val
            /\ pc' = "format"
            /\ UNCHANGED ret
    /\ UNCHANGED <<args, api_key, system_prompt, user_message, wire, reply, raw>>

\* the preview f-string of lines 235-237
Preview(target_model, prompt_style, output_language, text) ==
    <<"[model: ", target_model, "] [style: ", prompt_style,
      "] [lang: ", output_language, "]\n\n">> \o text

\* lines 235-238
Return ==
    /\ pc = "format"
    /\ LET preview == Preview(args.target_model, args.prompt_style,
                              args.output_language, prompt) IN
       ret' = Ok([ui |-> [text |-> <<preview>>], result |-> <<prompt, preview>>])
    /\ pc' = "returned"
    /\ UNCHANGED <<args, api_key, system_prompt, user_message, wire, reply, raw, prompt>>

Next ==
    \/ CheckApiKey
    \/ Resolve
    \/ Build
    \/ SendRequest
    \/ NetworkAnswers
    \/ HandleAnswer
    \/ Parse
    \/ Return

Spec == Init /\ [][Next]_vars

----------------------------------------------------------------------------
(* The Composer's functions applied on their own *)

InitComposer ==
    /\ args \in ComposerArgs
    /\ pc = "composer"
    /\ Locals0

ApplyResolve ==
    /\ pc = "composer"
    /\ ret' = _resolve_system_prompt(args.system_prompt_mode, args.custom_system_prompt)
    /\ pc' = "resolved"
    /\ UNCHANGED <<args, api_key, system_prompt, user_message, wire, reply, raw, prompt>>

ApplyBuild ==
    /\ pc = "composer"
    /\ ret' = _build_user_message(args.text, args.output_language,
                               args.target_model, args.prompt_style)
    /\ pc' = "built"
    /\ UNCHANGED <<args, api_key, system_prompt, user_message, wire, reply, raw, prompt>>

NextComposer == ApplyResolve \/ ApplyBuild

SpecComposer == InitComposer /\ [][NextComposer]_vars

----------------------------------------------------------------------------
(* Vocabulary of the properties, stated without the model's own operators *)

\* x is missing, empty or made of white space only
Blank(x) == x.t = "None" \/ \A i \in 1..Len(x.s) : x.s[i] \in WhiteSpace

\* v is s without its leading and trailing white space
IsTrimOf(v, s) ==
    \E i \in 0..Len(s) : \E j \in i..Len(s) :
        /\ v = SubSeq(s, i + 1, j)
        /\ \A k \in 1..i : s[k] \in WhiteSpace
        /\ \A k \in (j + 1)..Len(s) : s[k] \in WhiteSpace
        /\ v # << >> => v[1] \notin WhiteSpace /\ v[Len(v)] \notin WhiteSpace

ApiKeyRequired == Raise("ValueError", <<"api_key is required.">>)

CustomEmpty ==
    Raise("ValueError",
          <<"system_prompt_mode is Custom, but custom_system_prompt is empty.">>)

----------------------------------------------------------------------------
(* C1 *)

\* C1: an invocation of generate_prompt whose api_key is missing, empty or
\* white space only never gets past the credential check: it is at its start
\* with nothing decided, or it has failed with ValueError "api_key is
\* required."; at no point of it has a request been handed to the network,
\* whatever the other arguments are.
C1_BlankKeyFailsBeforeNetwork ==
    Blank(args.api_key) =>
        /\ wire = << >>
        /\ reply = NoReply
        /\ \/ pc = "start" /\ ret = Pending
           \/ pc = "raised" /\ ret = ApiKeyRequired

C1_Witness ==
    /\ args.api_key = PyStr(<<" ", " ">>)
    /\ args.system_prompt_mode = "Custom"
    /\ Blank(args.custom_system_prompt)
    /\ pc = "raised"
    /\ ret = ApiKeyRequired
    /\ wire = << >>

----------------------------------------------------------------------------
(* C2 *)

\* C2: _resolve_system_prompt in Custom mode fails with ValueError when
\* custom_system_prompt is missing, empty or white space only, and otherwise
\* returns the override without its surrounding white space: a non-empty
\* text, not the (empty) "Custom" entry of the table.
C2_CustomMode ==
    (pc = "resolved" /\ args.system_prompt_mode = "Custom") =>
        IF Blank(args.custom_system_prompt)
        THEN ret = CustomEmpty
        ELSE /\ ret.exc = NoExc
             /\ ret.val # << >>
             /\ IsTrimOf(ret.val, args.custom_system_prompt.s)

C2_Witness ==
    /\ pc = "resolved"
    /\ args.system_prompt_mode = "Custom"
    /\ args.custom_system_prompt = PyStr(<<" ", "a">>)
    /\ ret = Ok(<<"a">>)

----------------------------------------------------------------------------
(* C3 *)

PresetModes == SystemPromptModeChoices \ {"Custom"}

\* C3: for a mode other than Custom, _resolve_system_prompt returns, whatever
\* custom_system_prompt is: the mode's entry of SYSTEM_PROMPT_PRESETS for each
\* of the five preset modes, the "Improve prompt (default)" entry for a mode
\* the table does not have.
C3_PresetModes ==
    /\ Cardinality(PresetModes) = 5
    /\ (pc = "resolved" /\ args.system_prompt_mode # "Custom") =>
          /\ ret.exc = NoExc
          /\ ret.val # << >>
          /\ args.system_prompt_mode \in PresetModes =>
                ret.val = SYSTEM_PROMPT_PRESETS[args.system_prompt_mode]
          /\ args.system_prompt_mode \notin PresetModes =>
                ret.val = SYSTEM_PROMPT_PRESETS["Improve prompt (default)"]

C3_Witness ==
    /\ pc = "resolved"
    /\ args.system_prompt_mode = UnlistedKey
    /\ ~Blank(args.custom_system_prompt)
    /\ ret = Ok(SYSTEM_PROMPT_PRESETS["Improve prompt (default)"])

----------------------------------------------------------------------------
(* C8 *)

ScratchSentence ==
    "Generate a complete high-quality image-generation prompt from scratch."

ImproveSentence ==
    "Improve this prompt for image generation. Keep intent, but increase quality and specificity:\n\n"

\* index of the piece "Generation requirements:\n" in message m, 0 when absent
BlockStart(m) ==
    IF \E i \in 1..Len(m) : m[i] = "Generation requirements:\n"
    THEN CHOOSE i \in 1..Len(m) : m[i] = "Generation requirements:\n"
    ELSE 0

\* C8: _build_user_message decides by the trimmed text.  When text is
\* missing, empty or white space only, the message has the "from scratch"
\* sentence and no character of the text (it is made of the source's literals
\* and the option names only).  Otherwise it has the trimmed text right after
\* the "Improve this prompt" instruction.  Either way the message ends with
\* the generation-requirements block, whose first line is
\* "- Target image model: <target_model>".
C8_UserMessage ==
    pc = "built" =>
        /\ ret.exc = NoExc
        /\ LET m == ret.val
               b == BlockStart(m)
           IN
           /\ b > 0
           /\ Len(m) >= b + 3
           /\ SubSeq(m, b + 1, b + 3) =
                  <<"- Target image model: ", args.target_model, "\n">>
           /\ m[Len(m)] = "- Return only the final prompt text with no explanation."
           /\ IF Blank(args.text)
              THEN /\ Contains(SubSeq(m, 1, b - 1), <<ScratchSentence>>)
                   /\ \A i \in 1..Len(m) : m[i] \notin FreeChars
                   /\ ~Contains(m, <<ImproveSentence>>)
              ELSE /\ m[1] = ImproveSentence
                   /\ \E n \in 1..Len(args.text.s) :
                         /\ IsTrimOf(SubSeq(m, 2, n + 1), args.text.s)
                         /\ SubSeq(m, n + 2, b) = <<"\n\n", "Generation requirements:\n">>
                   /\ ~Contains(m, <<ScratchSentence>>)

C8_Witness ==
    /\ pc = "built"
    /\ args.text = PyStr(<<" ", "a">>)
    /\ args.target_model = "sdxl"
    /\ ret.exc = NoExc
    /\ Contains(ret.val, <<ImproveSentence, "a", "\n\n">>)
    /\ Contains(ret.val, <<"- Target image model: ", "sdxl", "\n">>)

----------------------------------------------------------------------------
(* C9 *)

\* C9: every choice INPUT_TYPES offers for output_language, target_model,
\* prompt_style and system_prompt_mode is a key of its table, and each table
\* has its fallback key; so _build_user_message returns for every key, with
\* the key's own hint when the table has the key and the fallback's hint
\* when it has not.
C9_TablesTotal ==
    /\ OutputLanguageChoices \subseteq DOMAIN LANGUAGE_HINTS
    /\ TargetModelChoices \subseteq DOMAIN TARGET_MODEL_HINTS
    /\ PromptStyleChoices \subseteq DOMAIN PROMPT_STYLE_HINTS
    /\ SystemPromptModeChoices \subseteq DOMAIN SYSTEM_PROMPT_PRESETS
    /\ "english" \in DOMAIN LANGUAGE_HINTS
    /\ "sdxl" \in DOMAIN TARGET_MODEL_HINTS
    /\ "Detailed" \in DOMAIN PROMPT_STYLE_HINTS
    /\ "Improve prompt (default)" \in DOMAIN SYSTEM_PROMPT_PRESETS
    /\ pc = "built" =>
          /\ ret.exc = NoExc
          /\ Contains(ret.val,
                 <<"- Model adaptation note: ",
                   IF args.target_model \in TargetModelChoices
                   THEN TARGET_MODEL_HINTS[args.target_model][1]
                   ELSE TARGET_MODEL_HINTS["sdxl"][1],
                   "\n">>)
          /\ Contains(ret.val,
                 <<"- Prompt style: ", args.prompt_style, ". ",
                   IF args.prompt_style \in PromptStyleChoices
                   THEN PROMPT_STYLE_HINTS[args.prompt_style][1]
                   ELSE PROMPT_STYLE_HINTS["Detailed"][1],
                   "\n">>)
          /\ Contains(ret.val,
                 <<"- Output language: ", args.output_language, ". ",
                   IF args.output_language \in OutputLanguageChoices
                   THEN LANGUAGE_HINTS[args.output_language][1]
                   ELSE LANGUAGE_HINTS["english"][1],
                   "\n">>)

C9_Witness ==
    /\ pc = "built"
    /\ args.target_model = UnlistedKey
    /\ args.prompt_style = UnlistedKey
    /\ args.output_language = UnlistedKey
    /\ ret.exc = NoExc
    /\ Contains(ret.val, <<"- Model adaptation note: ">> \o TARGET_MODEL_HINTS["sdxl"])
    /\ Contains(ret.val, <<". ">> \o PROMPT_STYLE_HINTS["Detailed"])
    /\ Contains(ret.val, <<". ">> \o LANGUAGE_HINTS["english"])

----------------------------------------------------------------------------
(* Vocabulary of the client's properties *)

\* the request was answered by a 2xx response whose body arrived and is
\* valid UTF-8
Received ==
    /\ reply.kind = "response"
    /\ reply.readable
    /\ \A i \in 1..Len(reply.body) : reply.body[i] # BadByte

\* document d has choices[0].message.content
HasContent(d) ==
    /\ d.t = "dict" /\ "choices" \in DOMAIN d.d
    /\ LET ch == d.d["choices"] IN
       /\ ch.t = "list" /\ Len(ch.items) >= 1
       /\ LET first == ch.items[1] IN
          /\ first.t = "dict" /\ "message" \in DOMAIN first.d
          /\ LET msg == first.d["message"] IN
             msg.t = "dict" /\ "content" \in DOMAIN msg.d

ContentOf(d) == d.d["choices"].items[1].d["message"].d["content"]

\* text body is a JSON document whose choices[0].message.content is the
\* text c, not blank
GoodBody(body, c) ==
    \E p \in DocTexts :
        /\ p[1] = body
        /\ HasContent(p[2])
        /\ c = ContentOf(p[2])
        /\ c.t = "str"
        /\ ~Blank(c)

\* text body is such a document, whatever the content
IsGoodBody(body) ==
    \E p \in DocTexts :
        /\ p[1] = body
        /\ HasContent(p[2])
        /\ ContentOf(p[2]).t = "str"
        /\ ~Blank(ContentOf(p[2]))

\* the content of such a document
GoodContent(body) ==
    ContentOf((CHOOSE p \in DocTexts : p[1] = body)[2])

ParseFailure(body) ==
    Raise("RuntimeError", <<"Failed to parse DeepSeek response: ">> \o body)

----------------------------------------------------------------------------
(* C4 *)

\* C4: an invocation of generate_prompt hands at most one request, a POST to
\* the fixed endpoint, to the network.  Once the network has answered,
\* whatever the answer, that request stays the only one, and an invocation
\* that has failed or returned takes no further step.
C4_SingleAttempt ==
    /\ Len(wire) <= 1
    /\ \A i \in 1..Len(wire) :
          wire[i].method = "POST" /\ wire[i].url = DEEPSEEK_API_URL
    /\ pc \in {"awaiting", "answered", "parse", "format", "returned"} => Len(wire) = 1
    /\ reply # NoReply => Len(wire) = 1 /\ pc # "awaiting"
    /\ pc \in {"raised", "returned"} => ~ENABLED Next

C4_Witness ==
    /\ pc = "raised"
    /\ reply.kind = "URLError"
    /\ Len(wire) = 1
    /\ ret.exc = "RuntimeError"

----------------------------------------------------------------------------
(* C5 *)

\* the text of body under errors="replace": as received, but for U+FFFD in
\* place of each byte that is not UTF-8
ReplacedText(body, text) ==
    /\ Len(text) = Len(body)
    /\ \A i \in 1..Len(body) :
          text[i] = (IF body[i] = BadByte THEN ReplacementChar ELSE body[i])

----------------------------------------------------------------------------
(* C6 *)

----------------------------------------------------------------------------
(* C7 *)

\* the preview of a returned prompt
PreviewOf(text) ==
    <<"[model: ", args.target_model, "] [style: ", args.prompt_style,
      "] [lang: ", args.output_language, "]\n\n">> \o text

\* a step that has been taken has failed
StepFailed ==
    \/ pc # "start" /\ Blank(args.api_key)
    \/ /\ pc \notin {"start", "resolve"}
       /\ args.system_prompt_mode = "Custom"
       /\ Blank(args.custom_system_prompt)
    \/ pc \notin {"awaiting", "answered"} /\ reply # NoReply /\ ~Received
    \/ /\ pc \notin {"awaiting", "answered", "parse"}
       /\ Received
       /\ ~IsGoodBody(reply.body)

\* C7: generate_prompt returns a result, made of the prompt and the preview
\* and a ui text holding the preview, only after the credential check, the
\* system-prompt resolution, the request and the parsing have all succeeded.
\* As soon as one of them has failed the invocation has ended with an
\* exception for outcome, and no value: no failure is turned into a result.
C7_ResultOnlyOnSuccess ==
    /\ ret.exc = NoExc <=> pc = "returned"
    /\ ret = Pending <=> pc \notin {"raised", "returned"}
    /\ pc = "returned" =>
          /\ ~StepFailed
          /\ ~Blank(args.api_key)
          /\ Len(wire) = 1
          /\ Received
          /\ IsGoodBody(reply.body)
          /\ prompt # << >>
          /\ ret.val.result = <<prompt, PreviewOf(prompt)>>
          /\ ret.val.ui.text = <<PreviewOf(prompt)>>
    /\ StepFailed => pc = "raised" /\ ret.exc \notin {NoExc, "pending"}

C7_Witness ==
    /\ pc = "returned"
    /\ ret.val.result = <<prompt, PreviewOf(prompt)>>
    /\ prompt = <<"X">>
    /\ args.system_prompt_mode = "Custom"

----------------------------------------------------------------------------
(* C10 *)

\* C10: a request is handed to the network only after the credential check
\* and then the system-prompt resolution have succeeded.  Every request sent
\* carries "Bearer " and the api_key without surrounding white space, not
\* empty, and a system message whose content is not empty.  An invocation in
\* Custom mode with a blank override never reaches the network, and when the
\* api_key is blank too the failure is the credential's.
C10_RequestAfterChecks ==
    /\ \A i \in 1..Len(wire) :
          LET rq == wire[i]
              key == SubSeq(rq.authorization, 2, Len(rq.authorization))
          IN
          /\ rq.authorization[1] = "Bearer "
          /\ key # << >>
          /\ args.api_key.t = "str"
          /\ IsTrimOf(key, args.api_key.s)
          /\ rq.data.messages[1].role = "system"
          /\ rq.data.messages[1].content # << >>
          /\ rq.data.messages[1].content = system_prompt
          /\ rq.data.messages[2].role = "user"
    /\ pc \notin {"start", "raised"} => ~Blank(args.api_key)
    /\ pc \notin {"start", "resolve", "raised"} => system_prompt # << >>
    /\ pc \in {"start", "resolve", "build", "call"} => wire = << >>
    /\ (args.system_prompt_mode = "Custom" /\ Blank(args.custom_system_prompt)) =>
          /\ wire = << >>
          /\ reply = NoReply
          /\ pc \in {"start", "resolve", "raised"}
          /\ pc = "raised" =>
                ret = (IF Blank(args.api_key) THEN ApiKeyRequired ELSE CustomEmpty)

C10_Witness ==
    /\ Len(wire) = 1
    /\ args.api_key = PyStr(<<" ", "a">>)
    /\ wire[1].authorization = <<"Bearer ", "a">>
    /\ args.system_prompt_mode = "Custom"
    /\ wire[1].data.messages[1].content = <<"a">>

====
